---- MODULE Spec2Model ----
(***************************************************************************)
(* Model of the ETF drift analysis of src/app.py: the upload branch of the *)
(* script (lines 93-105) and analyze_data (lines 22-90).                   *)
(*                                                                         *)
(* Numbers: a Python float is an IEEE-754 binary64 value, computed bit for  *)
(* bit (division, addition, subtraction, comparison and formatting round   *)
(* as CPython does).  Strings the code transforms (tickers, str(acc_id),   *)
(* the formatted percentage cells) are sequences of one-character strings. *)
(***************************************************************************)
EXTENDS Integers, Sequences, FiniteSets, TLC

VARIABLES CONFIG, df, df0, pc, results, locals, analysis_res, st_error

vars == <<CONFIG, df, df0, pc, results, locals, analysis_res, st_error>>

(***************************************************************************)
(* Bounds                                                                  *)
(***************************************************************************)
MaxRows == 2

Abs(n) == IF n < 0 THEN -n ELSE n

(***************************************************************************)
(* IEEE-754 binary64 arithmetic.  A natural number of any size is a        *)
(* sequence of limbs base 2^15, least significant first, without leading   *)
(* zero limbs.  A float is [s, m, e] with value s * m * 2^e, m such a      *)
(* number, odd and below 2^53, or the zero float.                          *)
(***************************************************************************)
Base == 2 ^ 15

Pow2(k) == 2 ^ k

RECURSIVE BTrim(_)
BTrim(a) == IF a # <<>> /\ a[Len(a)] = 0 THEN BTrim(SubSeq(a, 1, Len(a) - 1)) ELSE a

RECURSIVE BFromInt(_)
BFromInt(n) == IF n = 0 THEN <<>> ELSE <<n % Base>> \o BFromInt(n \div Base)

RECURSIVE BToInt(_)
BToInt(a) == IF a = <<>> THEN 0 ELSE Head(a) + Base * BToInt(Tail(a))

RECURSIVE BAddC(_, _, _)
BAddC(a, b, c) ==
  IF a = <<>> /\ b = <<>> THEN (IF c = 0 THEN <<>> ELSE <<c>>)
  ELSE LET x == (IF a = <<>> THEN 0 ELSE Head(a)) + (IF b = <<>> THEN 0 ELSE Head(b)) + c
       IN  <<x % Base>> \o BAddC(IF a = <<>> THEN a ELSE Tail(a),
                                 IF b = <<>> THEN b ELSE Tail(b), x \div Base)

BAdd(a, b) == BAddC(a, b, 0)

\* a - b for a >= b
RECURSIVE BSubC(_, _, _)
BSubC(a, b, c) ==
  IF a = <<>> THEN <<>>
  ELSE LET x == Head(a) - (IF b = <<>> THEN 0 ELSE Head(b)) - c
       IN  <<x % Base>> \o BSubC(Tail(a), IF b = <<>> THEN b ELSE Tail(b),
                                 IF x < 0 THEN 1 ELSE 0)

BSub(a, b) == BTrim(BSubC(a, b, 0))

\* -1, 0, 1 as a < b, a = b, a > b
RECURSIVE BCmp(_, _)
BCmp(a, b) ==
  IF Len(a) # Len(b) THEN (IF Len(a) < Len(b) THEN -1 ELSE 1)
  ELSE IF a = <<>> THEN 0
  ELSE IF a[Len(a)] # b[Len(b)] THEN (IF a[Len(a)] < b[Len(b)] THEN -1 ELSE 1)
  ELSE BCmp(SubSeq(a, 1, Len(a) - 1), SubSeq(b, 1, Len(b) - 1))

RECURSIVE BMulC(_, _, _)
BMulC(a, k, c) ==
  IF a = <<>> THEN BFromInt(c)
  ELSE LET x == Head(a) * k + c
       IN  <<x % Base>> \o BMulC(Tail(a), k, x \div Base)

\* a * k for 0 < k < 2^15
BMulSmall(a, k) == BMulC(a, k, 0)

\* quotient and remainder of a by d, 0 < d < 2^15
RECURSIVE BDivRaw(_, _)
BDivRaw(a, d) ==
  IF a = <<>> THEN [q |-> <<>>, r |-> 0]
  ELSE LET hi == BDivRaw(Tail(a), d)
           x  == hi.r * Base + Head(a)
       IN  [q |-> <<x \div d>> \o hi.q, r |-> x % d]

BDivSmall(a, d) == LET x == BDivRaw(a, d) IN [q |-> BTrim(x.q), r |-> x.r]

Zeros(w) == [i \in 1..w |-> 0]

\* a * 2^k
BShl(a, k) ==
  IF a = <<>> THEN a
  ELSE Zeros(k \div 15) \o BMulSmall(a, Pow2(k % 15))

\* floor(a / 2^k), and whether a bit was shifted out
BShr(a, k) ==
  LET w    == k \div 15
      low  == SubSeq(a, 1, IF w < Len(a) THEN w ELSE Len(a))
      high == SubSeq(a, w + 1, Len(a))
      x    == BDivSmall(high, Pow2(k % 15))
  IN  [q |-> x.q, lost |-> (x.r # 0 \/ \E i \in 1..Len(low) : low[i] # 0)]

RECURSIVE IntBitLen(_)
IntBitLen(n) == IF n = 0 THEN 0 ELSE 1 + IntBitLen(n \div 2)

BitLen(a) == IF a = <<>> THEN 0 ELSE 15 * (Len(a) - 1) + IntBitLen(a[Len(a)])

BOdd(a) == a # <<>> /\ Head(a) % 2 = 1

RECURSIVE TrailingZeros(_)
TrailingZeros(n) == IF n % 2 = 1 THEN 0 ELSE 1 + TrailingZeros(n \div 2)

FZero == [s |-> 1, m |-> <<>>, e |-> 0]

\* the float s * n * 2^e for n below 2^53, with the mantissa made odd
RECURSIVE Canonical(_, _, _)
Canonical(s, n, e) ==
  IF n = <<>> THEN FZero
  ELSE IF Head(n) = 0 THEN Canonical(s, Tail(n), e + 15)
  ELSE LET z == TrailingZeros(Head(n))
       IN  [s |-> s, m |-> BDivSmall(n, Pow2(z)).q, e |-> e + z]

\* s * n * 2^e (plus less than one unit of n when inexact) rounded to 53
\* bits, nearest, ties to even
FRound(s, n, e, inexact) ==
  LET len == BitLen(n)
  IN  IF len <= 53 THEN Canonical(s, n, e)
      ELSE LET drop == len - 53
               t    == BShr(n, drop - 1)
               half == BOdd(t.q)
               q    == BShr(t.q, 1).q
               up   == half /\ (t.lost \/ inexact \/ BOdd(q))
           IN  Canonical(s, IF up THEN BAdd(q, <<1>>) ELSE q, e + drop)

Sign(n) == IF n < 0 THEN -1 ELSE 1

\* float(a) / float(b) for integers a and b, 0 < b < 2^15
FDivInt(a, b) ==
  IF a = 0 THEN FZero
  ELSE LET x == BDivSmall(BShl(BFromInt(Abs(a)), 75), b)
       IN  FRound(Sign(a), x.q, -75, x.r # 0)

FNeg(x) == IF x = FZero THEN x ELSE [x EXCEPT !.s = -x.s]

FAbs(x) == [x EXCEPT !.s = 1]

\* -1, 0, 1 as |x| < |y|, |x| = |y|, |x| > |y|
FCmpAbs(x, y) ==
  LET lo == IF x.e < y.e THEN x.e ELSE y.e
  IN  BCmp(BShl(x.m, x.e - lo), BShl(y.m, y.e - lo))

FAdd(x, y) ==
  LET lo == IF x.e < y.e THEN x.e ELSE y.e
      a  == BShl(x.m, x.e - lo)
      b  == BShl(y.m, y.e - lo)
  IN  IF x = FZero THEN y
      ELSE IF y = FZero THEN x
      ELSE IF x.s = y.s THEN FRound(x.s, BAdd(a, b), lo, FALSE)
      ELSE IF BCmp(a, b) >= 0 THEN FRound(x.s, BSub(a, b), lo, FALSE)
      ELSE FRound(y.s, BSub(b, a), lo, FALSE)

FSub(x, y) == FAdd(x, FNeg(y))

\* x > y
FGt(x, y) ==
  IF x = FZero THEN y # FZero /\ y.s = -1
  ELSE IF y = FZero THEN x.s = 1
  ELSE IF x.s # y.s THEN x.s = 1
  ELSE IF x.s = 1 THEN FCmpAbs(x, y) = 1
  ELSE FCmpAbs(x, y) = -1

\* x / float(d) for an integer d, 0 < d < 2^15
FDivByInt(x, d) ==
  IF x = FZero THEN x
  ELSE LET q == BDivSmall(BShl(x.m, 75), d)
       IN  FRound(x.s, q.q, x.e - 75, q.r # 0)

\* x * float(k) for an integer k, 0 < k < 2^15
FMulInt(x, k) ==
  IF x = FZero THEN x ELSE FRound(x.s, BMulSmall(x.m, k), x.e, FALSE)

\* |x| rounded to the nearest integer, ties to even
FRoundToInt(x) ==
  IF x = FZero THEN 0
  ELSE IF x.e >= 0 THEN BToInt(BShl(x.m, x.e))
  ELSE LET t    == BShr(x.m, (-x.e) - 1)
           half == BOdd(t.q)
           q    == BToInt(BShr(t.q, 1).q)
       IN  IF half /\ (t.lost \/ q % 2 = 1) THEN q + 1 ELSE q

(***************************************************************************)
(* Strings                                                                 *)
(***************************************************************************)
LowerCase == <<"a","b","c","d","e","f","g","h","i","j","k","l","m",
               "n","o","p","q","r","s","t","u","v","w","x","y","z">>
UpperCase == <<"A","B","C","D","E","F","G","H","I","J","K","L","M",
               "N","O","P","Q","R","S","T","U","V","W","X","Y","Z">>
Whitespace == {" "}
Digit == <<"0","1","2","3","4","5","6","7","8","9">>

RECURSIVE lstrip(_)
lstrip(s) == IF s # <<>> /\ Head(s) \in Whitespace THEN lstrip(Tail(s)) ELSE s

RECURSIVE rstrip(_)
rstrip(s) ==
  IF s # <<>> /\ s[Len(s)] \in Whitespace THEN rstrip(SubSeq(s, 1, Len(s) - 1))
  ELSE s

strip(s) == rstrip(lstrip(s))

upperChar(c) ==
  IF \E i \in 1..26 : LowerCase[i] = c
  THEN UpperCase[CHOOSE i \in 1..26 : LowerCase[i] = c]
  ELSE c

upper(s) == [i \in 1..Len(s) |-> upperChar(s[i])]

\* str(n) of a non-negative integer
RECURSIVE str(_)
str(n) == IF n < 10 THEN <<Digit[n + 1]>>
          ELSE str(n \div 10) \o <<Digit[(n % 10) + 1]>>

\* the digits of f"{|x|:.2%}": x * 100 as a float, then shown with two
\* decimals, the decimal digits rounded to nearest, ties to even
PctDigits(x) ==
  LET val == FMulInt(FAbs(x), 100)
      bp  == FRoundToInt([s |-> 1, m |-> BMulSmall(val.m, 100), e |-> val.e])
  IN  str(bp \div 100) \o <<".", Digit[((bp % 100) \div 10) + 1],
                            Digit[(bp % 10) + 1], "%">>

\* f"{x:.2%}"
FmtPct(x) == (IF x.s < 0 THEN <<"-">> ELSE <<>>) \o PctDigits(x)

\* f"{x:+.2%}"
FmtSignedPct(x) == (IF x.s < 0 THEN <<"-">> ELSE <<"+">>) \o PctDigits(x)

\* f"{ratio:.2%} ({diff_str})" with diff_str as on lines 57, 81, 85
Cell(ratio, diff) ==
  LET diff_str == IF diff # FZero THEN FmtSignedPct(diff)
                  ELSE <<"0", ".", "0", "0", "%">>
  IN  FmtPct(ratio) \o <<" ", "(">> \o diff_str \o <<")">>

(***************************************************************************)
(* Tickers, configuration and datasets                                     *)
(***************************************************************************)
VTI  == <<"V","T","I">>
SPY  == <<"S","P","Y">>
MCHI == <<"M","C","H","I">>
ASHR == <<"A","S","H","R">>
VTIX == <<"V","T","I","X">>

\* ticker cells as an uploaded sheet may hold them: padded lower case, mixed
\* case, already normalized, and a fund that is in no target allocation
RawTickers == { <<" ","v","t","i"," ">>, <<"S","p","y">>, MCHI, <<"v","t","i","x">> }

AccountIds == {2, 10}
MarketValues == {-12, 12, 13}

\* the float json.load makes of a weight written with two decimals
Weight(pct) == FDivInt(pct, 100)

Item(ticker, pct) == [ticker |-> ticker, weight |-> Weight(pct)]

\* target_weights of config.json, as the list of its items in file order: a
\* four-fund allocation in which both composite groups have two members,
\* and a two-fund allocation in which SPY and ASHR are absent
WeightsFourFunds == <<Item(VTI, 50), Item(MCHI, 10), Item(SPY, 10), Item(ASHR, 10)>>
WeightsTwoFunds  == <<Item(VTI, 48), Item(MCHI, 52)>>
Columns == [account_id |-> "account", ticker |-> "ticker", market_value |-> "market_value"]

NoSetting == [k \in {} |-> 0]

CustomLabels == [warning |-> "REBALANCE", normal |-> "OK"]
DefaultLabels == [warning |-> "WARNING", normal |-> "NORMAL"]

\* config.json: drift_divisor and status_labels are optional sections, absent
\* from the first configuration and present in the second
Configs ==
  { [target_weights |-> WeightsFourFunds, columns |-> Columns,
     app_settings |-> NoSetting],
    [target_weights |-> WeightsTwoFunds, columns |-> Columns,
     app_settings |-> [drift_divisor |-> 4],
     status_labels |-> CustomLabels] }

TARGET_WEIGHTS == CONFIG.target_weights
COLS == CONFIG.columns

\* dict.get(k, default)
Get(d, k, default) == IF k \in DOMAIN d THEN d[k] ELSE default

\* TARGET_WEIGHTS.keys()
Keys(items) == {items[i].ticker : i \in 1..Len(items)}

\* TARGET_WEIGHTS.get(k, 0)
WeightGet(items, k) ==
  IF k \in Keys(items)
  THEN items[CHOOSE i \in 1..Len(items) : items[i].ticker = k].weight
  ELSE FZero

ColumnNames == {"account", "ticker", "market_value"}

FullRows == [account : AccountIds, ticker : RawTickers, market_value : MarketValues]

Restrict(r, C) == [c \in C |-> r[c]]

RowsOver(C) == UNION { [1..n -> {Restrict(r, C) : r \in FullRows}] : n \in 0..MaxRows }

\* what pd.read_excel can hand over: any subset of the columns, up to
\* MaxRows rows
Datasets ==
  UNION { { [columns |-> C, rows |-> s] : s \in RowsOver(C) } : C \in SUBSET ColumnNames }

(***************************************************************************)
(* analyze_data, piece by piece                                            *)
(***************************************************************************)
required_cols == {COLS.account_id, COLS.ticker, COLS.market_value}

missingAllRequired(d) == required_cols

missing(d) == required_cols \ d.columns

NormalizeTickerStripOnly(t) == strip(t)

\* .astype(str).str.strip().str.upper() on one cell
NormalizeTicker(t) == upper(strip(t))

NormalizeDf(d) ==
  [d EXCEPT !.rows = [i \in 1..Len(d.rows) |->
                        [d.rows[i] EXCEPT ![COLS.ticker] = NormalizeTicker(@)]]]

RECURSIVE SortedSeq(_)
SortedSeq(S) ==
  IF S = {} THEN <<>>
  ELSE LET m == CHOOSE x \in S : \A y \in S : x <= y
       IN  <<m>> \o SortedSeq(S \ {m})

RECURSIVE FirstSeenKeys(_, _)
FirstSeenKeys(rows, col) ==
  IF rows = <<>> THEN <<>>
  ELSE LET k == Head(rows)[col]
       IN  <<k>> \o FirstSeenKeys(SelectSeq(Tail(rows), LAMBDA r : r[col] # k), col)

GroupKeysUnsorted(d) == FirstSeenKeys(d.rows, COLS.account_id)

\* the keys df.groupby(col_acc) iterates over: distinct, ascending (sort=True)
GroupKeys(d) == SortedSeq({d.rows[i][COLS.account_id] : i \in 1..Len(d.rows)})

Group(d, acc_id) == SelectSeq(d.rows, LAMBDA r : r[COLS.account_id] = acc_id)

RECURSIVE SumMV(_)
SumMV(rows) ==
  IF rows = <<>> THEN 0
  ELSE Head(rows)[COLS.market_value] + SumMV(Tail(rows))

TotalMVTrackedOnly(group) ==
  SumMV(SelectSeq(group, LAMBDA r : r[COLS.ticker] \in Keys(TARGET_WEIGHTS)))

TotalMV(group) == SumMV(group)

HoldingMV(group, ticker) ==
  SumMV(SelectSeq(group, LAMBDA r : r[COLS.ticker] = ticker))

Ratio(mv, total_mv) == IF total_mv > 0 THEN FDivInt(mv, total_mv) ELSE FZero

DeviationFlipped(actual_ratio, target_wgt) == FSub(target_wgt, actual_ratio)

Deviation(actual_ratio, target_wgt) == FSub(actual_ratio, target_wgt)

RECURSIVE TotalAbsDiffSigned(_, _)
TotalAbsDiffSigned(items, diff) ==
  IF items = <<>> THEN FZero
  ELSE FAdd(TotalAbsDiffSigned(SubSeq(items, 1, Len(items) - 1), diff),
            diff[items[Len(items)].ticker])

\* total_abs_diff after the loop over the items: 0.0, then += abs(diff) in
\* item order
RECURSIVE TotalAbsDiff(_, _)
TotalAbsDiff(items, diff) ==
  IF items = <<>> THEN FZero
  ELSE FAdd(TotalAbsDiff(SubSeq(items, 1, Len(items) - 1), diff),
            FAbs(diff[items[Len(items)].ticker]))

DriftDivisorDefaultOne == Get(CONFIG.app_settings, "drift_divisor", 1)

DriftDivisor == Get(CONFIG.app_settings, "drift_divisor", 2)

TargetUSWrongKey ==
  FAdd(WeightGet(TARGET_WEIGHTS, <<"V","T","1">>), WeightGet(TARGET_WEIGHTS, SPY))

TargetUS == FAdd(WeightGet(TARGET_WEIGHTS, VTI), WeightGet(TARGET_WEIGHTS, SPY))

TargetCN == FAdd(WeightGet(TARGET_WEIGHTS, MCHI), WeightGet(TARGET_WEIGHTS, ASHR))

\* the literal 0.02
Threshold == FDivInt(2, 100)

IsWarning(diff_us, diff_cn) ==
  FGt(FAbs(diff_us), Threshold) \/ FGt(FAbs(diff_cn), Threshold)

Labels == Get(CONFIG, "status_labels", DefaultLabels)

\* the local variables of one iteration of the loop over accounts
AnalyzeAccount(d, acc_id) ==
  LET group        == Group(d, acc_id)
      total_mv     == TotalMV(group)
      tickers      == Keys(TARGET_WEIGHTS)
      holdings_mv  == [t \in tickers |-> HoldingMV(group, t)]
      actual_ratio == [t \in tickers |-> Ratio(holdings_mv[t], total_mv)]
      diff         == [t \in tickers |->
                         Deviation(actual_ratio[t], WeightGet(TARGET_WEIGHTS, t))]
      actual_us    == Get(holdings_mv, VTI, 0) + Get(holdings_mv, SPY, 0)
      ratio_us     == Ratio(actual_us, total_mv)
      actual_cn    == Get(holdings_mv, MCHI, 0) + Get(holdings_mv, ASHR, 0)
      ratio_cn     == Ratio(actual_cn, total_mv)
      diff_us      == FSub(ratio_us, TargetUS)
      diff_cn      == FSub(ratio_cn, TargetCN)
  IN  [acc_id |-> acc_id, total_mv |-> total_mv, holdings_mv |-> holdings_mv,
       actual_ratio |-> actual_ratio, diff |-> diff,
       total_abs_diff |-> TotalAbsDiff(TARGET_WEIGHTS, diff),
       drift_divisor |-> DriftDivisor,
       ratio_us |-> ratio_us, diff_us |-> diff_us,
       ratio_cn |-> ratio_cn, diff_cn |-> diff_cn,
       is_warning |-> IsWarning(diff_us, diff_cn)]

\* the dict appended to results for those locals
Row(l) ==
  [account          |-> str(l.acc_id),
   tickers          |-> [t \in DOMAIN l.actual_ratio |-> Cell(l.actual_ratio[t], l.diff[t])],
   total_drift_rate |-> FDivByInt(l.total_abs_diff, l.drift_divisor),
   status           |-> IF l.is_warning THEN Labels.warning ELSE Labels.normal,
   us_ratio         |-> Cell(l.ratio_us, l.diff_us),
   cn_ratio         |-> Cell(l.ratio_cn, l.diff_cn)]

\* the whole function, as the value it returns for dataset d
analyze_data(d) ==
  IF missing(d) # {} THEN <<>>
  ELSE LET n    == NormalizeDf(d)
           keys == GroupKeys(n)
       IN  [i \in 1..Len(keys) |-> Row(AnalyzeAccount(n, keys[i]))]

(***************************************************************************)
(* The script run: an uploaded sheet is read and handed to analyze_data    *)
(***************************************************************************)
Empty(d) == Len(d.rows) = 0 \/ d.columns = {}

Init ==
  /\ CONFIG \in Configs
  /\ df \in Datasets
  /\ df0 = df
  /\ pc = "upload"
  /\ results = <<>>
  /\ locals = <<>>
  /\ analysis_res = <<>>
  /\ st_error = <<>>

\* lines 95-100: an empty sheet stops the script with a warning
UploadEmpty ==
  /\ pc = "upload"
  /\ Empty(df)
  /\ pc' = "stopped"
  /\ UNCHANGED <<CONFIG, df, df0, results, locals, analysis_res, st_error>>

\* line 102 with lines 29-34 of analyze_data, then lines 104-105: a required
\* column is absent, the error is shown and an empty frame returned
AnalyzeSchemaError ==
  /\ pc = "upload"
  /\ ~Empty(df)
  /\ ~(required_cols \subseteq df.columns)
  /\ st_error' = Append(st_error, [missing |-> missing(df), required |-> required_cols])
  /\ analysis_res' = <<>>
  /\ pc' = "stopped"
  /\ UNCHANGED <<CONFIG, df, df0, results, locals>>

\* line 102 with lines 36-90 of analyze_data, then lines 104-105: the ticker
\* column of the caller's frame is overwritten, the frame is grouped by
\* account and one row is appended per group
Analyze ==
  /\ pc = "upload"
  /\ ~Empty(df)
  /\ required_cols \subseteq df.columns
  /\ df' = NormalizeDf(df)
  /\ LET keys == GroupKeys(df')
     IN  /\ locals' = [i \in 1..Len(keys) |-> AnalyzeAccount(df', keys[i])]
         /\ results' = [i \in 1..Len(keys) |-> Row(locals'[i])]
  /\ analysis_res' = results'
  /\ pc' = IF results' = <<>> THEN "stopped" ELSE "display"
  /\ UNCHANGED <<CONFIG, df0, st_error>>

Next ==
  \/ UploadEmpty
  \/ AnalyzeSchemaError
  \/ Analyze

Spec == Init /\ [][Next]_vars

(***************************************************************************)
(* Exact arithmetic on fractions [n, d] in lowest terms, d > 0, and what   *)
(* the caller supplied, read off df0 independently of the analysis         *)
(***************************************************************************)
RECURSIVE GCD(_, _)
GCD(a, b) == IF b = 0 THEN a ELSE GCD(b, a % b)

Frac(n, d) ==
  LET g == GCD(Abs(n), Abs(d))
      s == IF d < 0 THEN -1 ELSE 1
  IN  [n |-> (s * n) \div g, d |-> (s * d) \div g]

Zero == [n |-> 0, d |-> 1]
One == [n |-> 1, d |-> 1]

RAdd(a, b) == Frac(a.n * b.d + b.n * a.d, a.d * b.d)
RSub(a, b) == Frac(a.n * b.d - b.n * a.d, a.d * b.d)
RAbs(a) == [n |-> Abs(a.n), d |-> a.d]
RDivInt(a, k) == Frac(a.n, a.d * k)
RGt(a, b) == a.n * b.d > b.n * a.d

RECURSIVE RSum(_, _)
RSum(f, S) ==
  IF S = {} THEN Zero
  ELSE LET x == CHOOSE y \in S : TRUE IN RAdd(f[x], RSum(f, S \ {x}))

\* the float nearest to a fraction, and closeness of a float to a fraction:
\* within 2^-40, far above the rounding error of a handful of operations
Nearest(r) == FDivInt(r.n, r.d)
Tolerance == [s |-> 1, m |-> <<1>>, e |-> -40]
Near(x, r) == ~FGt(FAbs(FSub(x, Nearest(r))), Tolerance)

\* each ticker cell, trimmed and upper-cased
TrimmedUpper ==
  (<<" ","v","t","i"," ">> :> VTI) @@ (<<"S","p","y">> :> SPY) @@
  (MCHI :> MCHI) @@ (<<"v","t","i","x">> :> VTIX)

\* str() of each account id
AccountLabel == (2 :> <<"2">>) @@ (10 :> <<"1","0">>)

TrimmedUpperDataset ==
  [df0 EXCEPT !.rows = [i \in 1..Len(df0.rows) |->
                          [df0.rows[i] EXCEPT !.ticker = TrimmedUpper[@]]]]

SuppliedAccounts == {df0.rows[i].account : i \in 1..Len(df0.rows)}

RowsOf(acc) == {i \in 1..Len(df0.rows) : df0.rows[i].account = acc}

RECURSIVE SumRows(_)
SumRows(I) ==
  IF I = {} THEN 0
  ELSE LET i == CHOOSE j \in I : TRUE
       IN  df0.rows[i].market_value + SumRows(I \ {i})

SuppliedTotal(acc) == SumRows(RowsOf(acc))

SuppliedMV(acc, tickers) ==
  SumRows({i \in RowsOf(acc) : TrimmedUpper[df0.rows[i].ticker] \in tickers})

SuppliedRatio(acc, tickers) ==
  IF SuppliedTotal(acc) > 0 THEN Frac(SuppliedMV(acc, tickers), SuppliedTotal(acc))
  ELSE Zero

TargetTickers == Keys(CONFIG.target_weights)

\* the float of each two-decimal fraction k/100
Hundredths == [k \in 0..100 |-> FDivInt(k, 100)]

\* the target weights as the decimal fractions written in config.json
Targets ==
  [t \in TargetTickers |->
     Frac(CHOOSE k \in 0..100 : Hundredths[k] = WeightGet(CONFIG.target_weights, t), 100)]

SuppliedAbsDeviations(acc) ==
  RSum([t \in TargetTickers |-> RAbs(RSub(SuppliedRatio(acc, {t}), Targets[t]))],
       TargetTickers)

GroupUS == {VTI, SPY}
GroupCN == {MCHI, ASHR}

\* group ratio minus group target, over the members that have a target weight
GroupDeviation(acc, members) ==
  LET tracked == members \cap TargetTickers
  IN  RSub(SuppliedRatio(acc, tracked), RSum(Targets, tracked))

Breach(acc, members) == RGt(RAbs(GroupDeviation(acc, members)), Frac(2, 100))

ExpectedDivisor ==
  IF "drift_divisor" \in DOMAIN CONFIG.app_settings
  THEN CONFIG.app_settings.drift_divisor
  ELSE 2

ExpectedLabels ==
  IF "status_labels" \in DOMAIN CONFIG THEN CONFIG.status_labels
  ELSE [warning |-> "WARNING", normal |-> "NORMAL"]

RECURSIVE FSum(_, _)
FSum(f, S) ==
  IF S = {} THEN FZero
  ELSE LET x == CHOOSE y \in S : TRUE IN FAdd(f[x], FSum(f, S \ {x}))

Processed == 1..Len(results)

SchemaIncomplete == ~(ColumnNames \subseteq df0.columns)

(***************************************************************************)
(* Claims                                                                  *)
(***************************************************************************)

\* C1: when a required column is absent from the uploaded dataset, the
\* analysis reports exactly the absent columns and ends with an empty result;
\* in no state of such a run has a ticker been normalized or an account been
\* aggregated.
C1_SchemaErrorBeforeRows ==
  SchemaIncomplete =>
    /\ df = df0
    /\ locals = <<>>
    /\ results = <<>>
    /\ analysis_res = <<>>
    /\ pc \in {"upload", "stopped"}
    /\ (pc = "stopped" /\ ~Empty(df0)) =>
          /\ Len(st_error) = 1
          /\ st_error[1].missing = ColumnNames \ df0.columns

C1_Witness ==
  /\ pc = "stopped"
  /\ df0.columns = {"account", "ticker"}
  /\ Len(df0.rows) = 2
  /\ df0.rows[1].ticker = <<" ","v","t","i"," ">>
  /\ st_error = <<[missing |-> {"market_value"}, required |-> ColumnNames]>>
  /\ analysis_res = <<>>

\* C2 as stated: the result has one row per distinct account id, in the order
\* in which the account ids first appear in the input rows.
C2_FirstSeenOrder ==
  pc = "display" =>
    LET seen == FirstSeenKeys(df0.rows, "account")
    IN  /\ Len(analysis_res) = Len(seen)
        /\ \A i \in 1..Len(seen) : analysis_res[i].account = AccountLabel[seen[i]]

\* C2 amended: the result has one row per distinct account id, in ascending
\* order of the account id (the i-th row is the account with i-1 smaller
\* account ids in the input).
C2_AscendingOrder ==
  pc = "display" =>
    /\ Len(analysis_res) = Cardinality(SuppliedAccounts)
    /\ \A i \in 1..Len(analysis_res) :
         \E a \in SuppliedAccounts :
           /\ analysis_res[i].account = AccountLabel[a]
           /\ Cardinality({b \in SuppliedAccounts : b < a}) = i - 1

C2_Witness ==
  /\ pc = "display"
  /\ Len(df0.rows) = 2
  /\ df0.rows[1].account = 10
  /\ df0.rows[2].account = 2
  /\ Len(analysis_res) = 2
  /\ analysis_res[1].account = <<"2">>
  /\ analysis_res[2].account = <<"1","0">>

\* C3 as stated: once the analysis has ended, the caller's records are as
\* they were supplied, and analysing them again gives the same result.
C3_InputUnchanged ==
  pc \in {"display", "stopped"} =>
    /\ df = df0
    /\ analyze_data(df) = analysis_res

\* C4: every emitted row has exactly the target tickers as its per-ticker
\* keys; a target ticker the account holds no row of has ratio 0, deviation
\* minus its target weight, and is shown as 0.00% with a negative deviation.
C4_TickerKeys ==
  \A i \in Processed :
    /\ DOMAIN results[i].tickers = TargetTickers
    /\ \A t \in TargetTickers :
         (~\E j \in RowsOf(locals[i].acc_id) : TrimmedUpper[df0.rows[j].ticker] = t) =>
            /\ locals[i].actual_ratio[t] = FZero
            /\ locals[i].diff[t] = FNeg(Nearest(Targets[t]))
            /\ SubSeq(results[i].tickers[t], 1, 8) =
                 <<"0", ".", "0", "0", "%", " ", "(", "-">>

C4_Witness ==
  /\ CONFIG.target_weights = WeightsFourFunds
  /\ Len(results) = 1
  /\ RowsOf(locals[1].acc_id) # {}
  /\ \A j \in RowsOf(locals[1].acc_id) : df0.rows[j].ticker = <<" ","v","t","i"," ">>
  /\ results[1].tickers[ASHR] =
       <<"0",".","0","0","%"," ","(","-","1","0",".","0","0","%",")">>
  /\ Near(locals[1].diff[ASHR], [n |-> -1, d |-> 10])

\* C5: for an account whose market values are all non-negative, total_mv is
\* the sum over all its rows (untracked tickers included), and the actual
\* ratios of the target tickers add up to tracked/total (when total > 0) and
\* to at most 1, up to the rounding of the floating-point divisions.
C5_RatioSum ==
  \A i \in Processed :
    LET acc == locals[i].acc_id
        sum == FSum(locals[i].actual_ratio, TargetTickers)
    IN  (\A j \in RowsOf(acc) : df0.rows[j].market_value >= 0) =>
          /\ locals[i].total_mv = SuppliedTotal(acc)
          /\ ~FGt(sum, FAdd(Nearest(One), Tolerance))
          /\ SuppliedTotal(acc) > 0 =>
               Near(sum, Frac(SuppliedMV(acc, TargetTickers), SuppliedTotal(acc)))

C5_Witness ==
  /\ Len(locals) = 1
  /\ \E j, k \in RowsOf(locals[1].acc_id) :
       /\ df0.rows[j].ticker = <<"v","t","i","x">> /\ df0.rows[j].market_value = 12
       /\ df0.rows[k].ticker = <<" ","v","t","i"," ">> /\ df0.rows[k].market_value = 12
  /\ locals[1].total_mv = 24
  /\ FSum(locals[1].actual_ratio, TargetTickers) = Nearest([n |-> 1, d |-> 2])

\* C6: for an account whose market values add up to 0, no error is reported,
\* every per-ticker ratio and both group ratios are 0, and the drift rate is
\* the sum of the target weights divided by the drift divisor.
C6_ZeroTotal ==
  \A i \in Processed :
    SuppliedTotal(locals[i].acc_id) = 0 =>
      /\ st_error = <<>>
      /\ \A t \in TargetTickers : locals[i].actual_ratio[t] = FZero
      /\ locals[i].ratio_us = FZero
      /\ locals[i].ratio_cn = FZero
      /\ Near(results[i].total_drift_rate,
              RDivInt(RSum(Targets, TargetTickers), ExpectedDivisor))

C6_Witness ==
  /\ Len(results) = 1
  /\ CONFIG.target_weights = WeightsFourFunds
  /\ \E j, k \in RowsOf(locals[1].acc_id) :
       df0.rows[j].market_value = 12 /\ df0.rows[k].market_value = -12
  /\ locals[1].total_mv = 0
  /\ Near(results[1].total_drift_rate, [n |-> 2, d |-> 5])
  /\ results[1].us_ratio = <<"0",".","0","0","%"," ","(","-","6","0",".","0","0","%",")">>

\* C7: an account has the warning label exactly when the absolute deviation
\* of at least one composite group is strictly greater than 0.02, and the
\* normal label otherwise.
C7_WarningIffBreach ==
  \A i \in Processed :
    LET acc == locals[i].acc_id
    IN  /\ (results[i].status = ExpectedLabels.warning) <=>
              (Breach(acc, GroupUS) \/ Breach(acc, GroupCN))
        /\ (results[i].status = ExpectedLabels.normal) <=>
              ~(Breach(acc, GroupUS) \/ Breach(acc, GroupCN))

\* C8: the result for a dataset is the result for the same dataset with every
\* ticker trimmed and upper-cased, and the market value counted for a target
\* ticker is that of the rows whose trimmed, upper-cased ticker equals it.
C8_TickerNormalization ==
  /\ pc = "display" => analysis_res = analyze_data(TrimmedUpperDataset)
  /\ \A i \in Processed :
       \A t \in TargetTickers :
         locals[i].holdings_mv[t] = SuppliedMV(locals[i].acc_id, {t})

C8_Witness ==
  /\ pc = "display"
  /\ Len(df0.rows) = 2
  /\ df0.rows[1] = [account |-> 2, ticker |-> <<" ","v","t","i"," ">>, market_value |-> 12]
  /\ df0.rows[2] = [account |-> 2, ticker |-> <<"v","t","i","x">>, market_value |-> 13]
  /\ locals[1].holdings_mv[VTI] = 12
  /\ TrimmedUpperDataset # df0

C10_WarningBoundedByDrift ==
  \A i \in Processed :
    /\ ~FGt(FAbs(locals[i].diff_us), locals[i].total_abs_diff)
    /\ ~FGt(FAbs(locals[i].diff_cn), locals[i].total_abs_diff)
    /\ results[i].status = ExpectedLabels.warning =>
         FGt(FMulInt(results[i].total_drift_rate, ExpectedDivisor), Nearest(Frac(2, 100)))
    /\ results[i].total_drift_rate = FZero =>
         results[i].status = ExpectedLabels.normal

C10_Witness ==
  /\ Len(results) = 1
  /\ results[1].total_drift_rate = FZero
  /\ results[1].status = ExpectedLabels.normal
  /\ locals[1].total_mv = 25

====
